---- MODULE Spec2Model ----
(***************************************************************************)
(* Model of the sorting-result validator (src/validationCase.py):          *)
(* SortingValidator.run_full_validation and the stages it calls.           *)
(*                                                                         *)
(* A text is a sequence of one-character strings.  A Python value that may *)
(* be None is a sequence of length at most one: <<>> is None, <<x>> is x.  *)
(* A Python dict is a function; the empty dict is <<>>.                    *)
(* An error message is a record [kind, name, args]: kind names the message *)
(* template, name is the algorithm name the message starts with ("" if     *)
(* none) and args are the values the f-string interpolates.                *)
(***************************************************************************)
EXTENDS Integers, Sequences, FiniteSets, Bags, TLC

\* input_file, output_file: the two files, as open and read find them
\* original_data, output_lines, parsed_results: the validator's attributes
\* local: the local variables of run_full_validation assigned so far
\* calls: the stages run_full_validation has called, in order
\* pc: the stage run_full_validation calls next, "returned" or "raised"
VARIABLES input_file, output_file, original_data, output_lines,
          parsed_results, local, calls, pc

vars == <<input_file, output_file, original_data, output_lines,
          parsed_results, local, calls, pc>>

(***************************************************************************)
(* Bounds of the model.                                                    *)
(***************************************************************************)
MaxVal == 2
MaxLen == 3
MaxDataLen == 4
MaxDataVal == 3
MaxLines == 4
MaxLineLen == 3

(***************************************************************************)
(* Python built-ins the validator uses.                                    *)
(***************************************************************************)
Range(s) == {s[i] : i \in DOMAIN s}

None == <<>>

Some(x) == <<x>>

\* str.isspace for the characters of the model's alphabet
IsSpace(c) == c \in {" ", "\t", "\n", "\r", "\f"}

Digits == {"0", "1", "2", "3", "4", "5", "6", "7", "8", "9"}

DigitVal(c) ==
    CASE c = "0" -> 0 [] c = "1" -> 1 [] c = "2" -> 2 [] c = "3" -> 3
      [] c = "4" -> 4 [] c = "5" -> 5 [] c = "6" -> 6 [] c = "7" -> 7
      [] c = "8" -> 8 [] c = "9" -> 9

RECURSIVE LStrip(_)
LStrip(s) == IF s # <<>> /\ IsSpace(Head(s)) THEN LStrip(Tail(s)) ELSE s

RECURSIVE RStrip(_)
RStrip(s) ==
    IF s # <<>> /\ IsSpace(s[Len(s)]) THEN RStrip(SubSeq(s, 1, Len(s) - 1)) ELSE s

\* str.strip()
Strip(s) == RStrip(LStrip(s))

\* str.split(sep) for a one-character sep: empty segments are kept
RECURSIVE SplitOn(_, _)
SplitOn(s, sep) ==
    IF \E i \in DOMAIN s : s[i] = sep
    THEN LET i == CHOOSE k \in DOMAIN s :
                      s[k] = sep /\ \A m \in 1..(k - 1) : s[m] # sep
         IN  <<SubSeq(s, 1, i - 1)>> \o SplitOn(SubSeq(s, i + 1, Len(s)), sep)
    ELSE <<s>>

\* str.split(): the maximal runs of non-whitespace characters
RECURSIVE Split(_)
Split(s) ==
    LET t == LStrip(s)
    IN  IF t = <<>> THEN <<>>
        ELSE LET n == IF \E i \in DOMAIN t : IsSpace(t[i])
                      THEN (CHOOSE k \in DOMAIN t :
                               IsSpace(t[k]) /\ \A m \in 1..(k - 1) : ~IsSpace(t[m])) - 1
                      ELSE Len(t)
             IN  <<SubSeq(t, 1, n)>> \o Split(SubSeq(t, n + 1, Len(t)))

\* str.startswith(' ')
StartsWithSpace(line) == line # <<>> /\ Head(line) = " "

\* str.endswith(' ')
EndsWithSpace(line) == line # <<>> /\ line[Len(line)] = " "

\* '  ' in line
HasDoubleSpace(line) ==
    \E i \in 1..(Len(line) - 1) : line[i] = " " /\ line[i + 1] = " "

RECURSIVE NatOf(_)
NatOf(ds) ==
    IF ds = <<>> THEN 0
    ELSE 10 * NatOf(SubSeq(ds, 1, Len(ds) - 1)) + DigitVal(ds[Len(ds)])

\* int(x) succeeds on an optional sign followed by one or more digits
\* (the alphabet of the model holds no underscore and no non-ASCII digit)
IsInt(tok) ==
    LET ds == IF tok # <<>> /\ Head(tok) \in {"-", "+"} THEN Tail(tok) ELSE tok
    IN  ds # <<>> /\ \A i \in DOMAIN ds : ds[i] \in Digits

\* int(x), where it does not raise ValueError
IntOf(tok) ==
    IF Head(tok) = "-" THEN 0 - NatOf(Tail(tok))
    ELSE IF Head(tok) = "+" THEN NatOf(Tail(tok))
    ELSE NatOf(tok)

\* a variant of ParseInts that leaves the malformed tokens out instead of
\* raising ValueError
ParseInts_Lenient(s) ==
    LET toks == SelectSeq(Split(s), IsInt)
    IN  Some([i \in DOMAIN toks |-> IntOf(toks[i])])

\* [int(x) for x in s.split()]: None when int raises ValueError
ParseInts(s) ==
    LET toks == Split(s)
    IN  IF \A i \in DOMAIN toks : IsInt(toks[i])
        THEN Some([i \in DOMAIN toks |-> IntOf(toks[i])])
        ELSE None

\* the token the ValueError names: the first one int rejects
BadToken(s) ==
    LET toks == Split(s)
        i == CHOOSE k \in DOMAIN toks :
                 ~IsInt(toks[k]) /\ \A m \in 1..(k - 1) : IsInt(toks[m])
    IN  toks[i]

RECURSIVE InsertSorted(_, _)
InsertSorted(x, s) ==
    IF s = <<>> THEN <<x>>
    ELSE IF x < Head(s) THEN <<x>> \o s
    ELSE <<Head(s)>> \o InsertSorted(x, Tail(s))

\* sorted(set(data)): a variant of Sorted that drops the repeated values
RECURSIVE Sorted_Distinct(_)
Sorted_Distinct(s) ==
    IF s = <<>> THEN <<>>
    ELSE LET rest == Sorted_Distinct(SubSeq(s, 1, Len(s) - 1))
         IN  IF s[Len(s)] \in Range(rest) THEN rest ELSE InsertSorted(s[Len(s)], rest)

\* sorted(data)
RECURSIVE Sorted(_)
Sorted(s) ==
    IF s = <<>> THEN <<>> ELSE InsertSorted(s[Len(s)], Sorted(SubSeq(s, 1, Len(s) - 1)))

Reverse(s) == [i \in DOMAIN s |-> s[Len(s) + 1 - i]]

\* sorted(data) where sorted(data, reverse=True) is meant: a variant of
\* SortedReverse without the reversal
SortedReverse_Ascending(s) == Sorted(s)

\* sorted(data, reverse=True)
SortedReverse(s) == Reverse(Sorted(s))

\* min(data), max(data) of a non-empty list
Min(s) == CHOOSE x \in Range(s) : \A y \in Range(s) : x <= y

Max(s) == CHOOSE x \in Range(s) : \A y \in Range(s) : y <= x

\* Counter(set(data)): a variant of Counter that forgets the multiplicities
Counter_Distinct(s) == [v \in Range(s) |-> 1]

\* collections.Counter(data)
Counter(s) == [v \in Range(s) |-> Cardinality({i \in DOMAIN s : s[i] = v})]

\* Counter - Counter keeps the positive differences only
CounterSub(a, b) == a (-) b

(***************************************************************************)
(* ValidationResult                                                        *)
(***************************************************************************)
Err(kind, name, args) == [kind |-> kind, name |-> name, args |-> args]

\* ValidationResult.__init__
ValidationResult == [success |-> TRUE, errors |-> <<>>, warnings |-> <<>>, stats |-> <<>>]

\* ValidationResult.add_error
add_error(r, message) == [r EXCEPT !.success = FALSE, !.errors = Append(@, message)]

\* ValidationResult.add_warning
add_warning(r, message) == [r EXCEPT !.warnings = Append(@, message)]

\* ValidationResult.add_stat
add_stat(r, key, value) == [r EXCEPT !.stats = (key :> value) @@ @]

algorithm_names == <<"insertion", "merge", "merge_insertion">>

(***************************************************************************)
(* SortingValidator.load_input_data.  A file is [status, text]; status is  *)
(* what open/read do: "ok", "not_found" (FileNotFoundError), "io_error"    *)
(* (another IOError) or "undecodable" (UnicodeDecodeError, which the       *)
(* method catches for the output file only).                               *)
(***************************************************************************)
load_input_data(file, data) ==
    CASE file.status = "not_found" ->
            [result |-> add_error(ValidationResult, Err("input_not_found", "", <<>>)),
             original_data |-> data, raised |-> FALSE]
      [] file.status = "io_error" ->
            [result |-> add_error(ValidationResult, Err("input_io_error", "", <<>>)),
             original_data |-> data, raised |-> FALSE]
      [] file.status = "undecodable" ->
            [result |-> ValidationResult, original_data |-> data, raised |-> TRUE]
      [] file.status = "ok" ->
            LET content == Strip(file.text)
                ints == ParseInts(content)
            IN  IF content = <<>>
                THEN [result |-> add_error(ValidationResult, Err("input_empty", "", <<>>)),
                      original_data |-> data, raised |-> FALSE]
                ELSE IF ints = None
                THEN [result |-> add_error(ValidationResult,
                                           Err("input_bad_int", "", BadToken(content))),
                      original_data |-> data, raised |-> FALSE]
                ELSE LET d == ints[1]
                         r1 == add_stat(ValidationResult, "input_size", Len(d))
                         r2 == add_stat(r1, "input_min", Min(d))
                         r3 == add_stat(r2, "input_max", Max(d))
                         r4 == add_stat(r3, "input_duplicates",
                                        Len(d) - Cardinality(Range(d)))
                     IN  [result |-> r4, original_data |-> Some(d), raised |-> FALSE]

(***************************************************************************)
(* SortingValidator.load_output_data                                       *)
(***************************************************************************)
load_output_data(file, lines) ==
    CASE file.status = "not_found" ->
            [result |-> add_error(ValidationResult, Err("output_not_found", "", <<>>)),
             output_lines |-> lines]
      [] file.status = "io_error" ->
            [result |-> add_error(ValidationResult, Err("output_io_error", "", <<>>)),
             output_lines |-> lines]
      [] file.status = "undecodable" ->
            [result |-> add_error(ValidationResult, Err("output_bad_encoding", "", <<>>)),
             output_lines |-> lines]
      [] file.status = "ok" ->
            LET split == SplitOn(file.text, "\n")
                trailing == split # <<>> /\ split[Len(split)] = <<>>
                r1 == IF trailing
                      THEN add_warning(ValidationResult, "trailing_line_break")
                      ELSE ValidationResult
                kept == IF trailing THEN SubSeq(split, 1, Len(split) - 1) ELSE split
            IN  [result |-> add_stat(r1, "output_lines", Len(kept)),
                 output_lines |-> Some(kept)]

(***************************************************************************)
(* SortingValidator.validate_output_format                                 *)
(***************************************************************************)
\* a variant of the loop body with if / elif: the first defect of a line only
FormatLine_Elif(r, algorithm_name, line) ==
    IF EndsWithSpace(line) THEN add_error(r, Err("trailing_space", algorithm_name, <<>>))
    ELSE IF StartsWithSpace(line) THEN add_error(r, Err("leading_space", algorithm_name, <<>>))
    ELSE IF HasDoubleSpace(line) THEN add_error(r, Err("double_space", algorithm_name, <<>>))
    ELSE IF Strip(line) = <<>> THEN add_error(r, Err("empty_line", algorithm_name, <<>>))
    ELSE r

\* the body of the loop over the lines: the errors of one line
FormatLine(r, algorithm_name, line) ==
    LET r1 == IF EndsWithSpace(line)
              THEN add_error(r, Err("trailing_space", algorithm_name, <<>>)) ELSE r
        r2 == IF StartsWithSpace(line)
              THEN add_error(r1, Err("leading_space", algorithm_name, <<>>)) ELSE r1
        r3 == IF HasDoubleSpace(line)
              THEN add_error(r2, Err("double_space", algorithm_name, <<>>)) ELSE r2
        r4 == IF Strip(line) = <<>>
              THEN add_error(r3, Err("empty_line", algorithm_name, <<>>)) ELSE r3
    IN  r4

RECURSIVE FormatLoop(_, _, _)
FormatLoop(r, lines, i) ==
    IF i > Len(lines) THEN r
    ELSE FormatLoop(FormatLine(r, algorithm_names[i], lines[i]), lines, i + 1)

validate_output_format(lines) ==
    IF lines = None
    THEN add_error(ValidationResult, Err("output_not_loaded", "", <<>>))
    ELSE IF Len(lines[1]) # 3
    THEN add_error(ValidationResult, Err("wrong_line_count", "", <<Len(lines[1])>>))
    ELSE FormatLoop(ValidationResult, lines[1], 1)

(***************************************************************************)
(* SortingValidator.parse_output_results.  algorithm_names[i] raises       *)
(* IndexError for the fourth line and later ones; the method catches       *)
(* ValueError only, so the exception leaves it.                            *)
(***************************************************************************)
RECURSIVE ParseLoop(_, _, _, _)
ParseLoop(r, lines, i, parsed) ==
    IF i > Len(lines)
    THEN [result |-> r, parsed_results |-> parsed, raised |-> FALSE]
    ELSE LET numbers == ParseInts(lines[i])
         IN  IF numbers # None
             THEN IF i > Len(algorithm_names)
                  THEN [result |-> r, parsed_results |-> Append(parsed, numbers[1]),
                        raised |-> TRUE]
                  ELSE ParseLoop(add_stat(r, algorithm_names[i] \o "_size", Len(numbers[1])),
                                 lines, i + 1, Append(parsed, numbers[1]))
             ELSE IF i > Len(algorithm_names)
                  THEN [result |-> r, parsed_results |-> parsed, raised |-> TRUE]
                  ELSE ParseLoop(add_error(r, Err("bad_int", algorithm_names[i],
                                                  BadToken(lines[i]))),
                                 lines, i + 1, Append(parsed, <<>>))

parse_output_results(lines, parsed) ==
    IF lines = None
    THEN [result |-> add_error(ValidationResult, Err("output_not_loaded", "", <<>>)),
          parsed_results |-> parsed, raised |-> FALSE]
    ELSE LET p == ParseLoop(ValidationResult, lines[1], 1, <<>>)
         IN  [result |-> p.result, parsed_results |-> Some(p.parsed_results),
              raised |-> p.raised]

(***************************************************************************)
(* SortingValidator.validate_sorting_correctness                           *)
(***************************************************************************)
\* a variant of the loop of step 3 that keeps scanning after a violation:
\* the greatest j with s[j] > s[j + 1], or -1
RECURSIVE FirstDescent_Last(_, _)
FirstDescent_Last(s, j) ==
    IF j >= Len(s) - 1 THEN -1
    ELSE LET later == FirstDescent_Last(s, j + 1)
         IN  IF later # -1 THEN later
             ELSE IF s[j + 1] > s[j + 2] THEN j ELSE -1

\* a variant of the loop of step 3 that compares with >= and so rejects
\* equal neighbours
RECURSIVE FirstDescent_Strict(_, _)
FirstDescent_Strict(s, j) ==
    IF j >= Len(s) - 1 THEN -1
    ELSE IF s[j + 1] >= s[j + 2] THEN j
    ELSE FirstDescent_Strict(s, j + 1)

\* the loop of step 3: the least j (0-based) with s[j] > s[j + 1], or -1
RECURSIVE FirstDescent(_, _)
FirstDescent(s, j) ==
    IF j >= Len(s) - 1 THEN -1
    ELSE IF s[j + 1] > s[j + 2] THEN j
    ELSE FirstDescent(s, j + 1)

\* the body of the loop over the slots
CheckSlot(r, name, sorted_result, data, expected_sorted) ==
    IF Len(sorted_result) # Len(data)
    THEN add_error(r, Err("size_mismatch", name, <<Len(data), Len(sorted_result)>>))
    ELSE LET original_counter == Counter(data)
             result_counter == Counter(sorted_result)
         IN  IF original_counter # result_counter
             THEN LET missing == CounterSub(original_counter, result_counter)
                      extra == CounterSub(result_counter, original_counter)
                      r1 == add_error(r, Err("count_mismatch", name, <<>>))
                      r2 == IF missing # EmptyBag
                            THEN add_error(r1, Err("missing", "", missing)) ELSE r1
                      r3 == IF extra # EmptyBag
                            THEN add_error(r2, Err("extra", "", extra)) ELSE r2
                  IN  r3
             ELSE LET j == FirstDescent(sorted_result, 0)
                      is_sorted_correctly == (j = -1)
                      r1 == IF ~is_sorted_correctly
                            THEN add_error(r, Err("order", name,
                                     <<j, j + 1, sorted_result[j + 1], sorted_result[j + 2]>>))
                            ELSE r
                      r2 == IF is_sorted_correctly /\ sorted_result # expected_sorted
                            THEN add_error(r1, Err("differs", name, <<>>)) ELSE r1
                      r3 == IF is_sorted_correctly /\ sorted_result = expected_sorted
                            THEN add_stat(r2, name \o "_correct", TRUE) ELSE r2
                  IN  r3

\* for i, (name, sorted_result) in enumerate(zip(algorithm_names, parsed_results))
RECURSIVE CorrectnessLoop(_, _, _, _)
CorrectnessLoop(r, data, parsed, i) ==
    IF i > Len(parsed) \/ i > Len(algorithm_names) THEN r
    ELSE CorrectnessLoop(CheckSlot(r, algorithm_names[i], parsed[i], data, Sorted(data)),
                         data, parsed, i + 1)

validate_sorting_correctness(data, parsed) ==
    IF data = None \/ data[1] = <<>> \/ parsed = None \/ parsed[1] = <<>>
    THEN add_error(ValidationResult, Err("no_data", "", <<>>))
    ELSE CorrectnessLoop(ValidationResult, data[1], parsed[1], 1)

(***************************************************************************)
(* SortingValidator.validate_algorithm_consistency                         *)
(***************************************************************************)
\* a variant with if / elif over the pairs: the first differing pair only
validate_algorithm_consistency_Elif(parsed) ==
    IF parsed = None \/ parsed[1] = <<>> \/ Len(parsed[1]) # 3
    THEN add_error(ValidationResult, Err("no_three_results", "", <<>>))
    ELSE IF parsed[1][1] = parsed[1][2] /\ parsed[1][2] = parsed[1][3]
    THEN add_stat(ValidationResult, "algorithms_consistent", TRUE)
    ELSE add_error(add_error(ValidationResult, Err("inconsistent", "", <<>>)),
                   Err("pair_differs", "",
                       IF parsed[1][1] # parsed[1][2] THEN <<0, 1>>
                       ELSE IF parsed[1][1] # parsed[1][3] THEN <<0, 2>> ELSE <<1, 2>>))

validate_algorithm_consistency(parsed) ==
    IF parsed = None \/ parsed[1] = <<>> \/ Len(parsed[1]) # 3
    THEN add_error(ValidationResult, Err("no_three_results", "", <<>>))
    ELSE LET insertion_result == parsed[1][1]
             merge_result == parsed[1][2]
             merge_insertion_result == parsed[1][3]
         IN  IF insertion_result = merge_result /\ merge_result = merge_insertion_result
             THEN add_stat(ValidationResult, "algorithms_consistent", TRUE)
             ELSE LET r1 == add_error(ValidationResult, Err("inconsistent", "", <<>>))
                      r2 == IF insertion_result # merge_result
                            THEN add_error(r1, Err("pair_differs", "", <<0, 1>>)) ELSE r1
                      r3 == IF insertion_result # merge_insertion_result
                            THEN add_error(r2, Err("pair_differs", "", <<0, 2>>)) ELSE r2
                      r4 == IF merge_result # merge_insertion_result
                            THEN add_error(r3, Err("pair_differs", "", <<1, 2>>)) ELSE r3
                  IN  r4

(***************************************************************************)
(* SortingValidator.analyze_data_characteristics                           *)
(***************************************************************************)
\* a variant of the inner loop that counts the pairs of equal values too
RECURSIVE InnerLoop_Ties(_, _, _, _)
InnerLoop_Ties(data, i, j, inversions) ==
    IF j > Len(data) THEN inversions
    ELSE InnerLoop_Ties(data, i, j + 1,
                        IF data[i] >= data[j] THEN inversions + 1 ELSE inversions)

\* for j in range(i + 1, size): if data[i] > data[j]: inversions += 1
\* (i and j are the 1-based positions of the 0-based indices of the code)
RECURSIVE InnerLoop(_, _, _, _)
InnerLoop(data, i, j, inversions) ==
    IF j > Len(data) THEN inversions
    ELSE InnerLoop(data, i, j + 1, IF data[i] > data[j] THEN inversions + 1 ELSE inversions)

\* for i in range(size - 1)
RECURSIVE OuterLoop(_, _, _)
OuterLoop(data, i, inversions) ==
    IF i > Len(data) - 1 THEN inversions
    ELSE OuterLoop(data, i + 1, InnerLoop(data, i, i + 1, inversions))

\* f"{disorder_ratio:.2%}": the ratio in hundredths of a percent, rounded
\* to the nearest (0 when max_inversions is 0)
DisorderRatio(inversions, max_inversions) ==
    IF max_inversions > 0
    THEN (2 * 10000 * inversions + max_inversions) \div (2 * max_inversions)
    ELSE 0

analyze_data_characteristics(original) ==
    IF original = None \/ original[1] = <<>>
    THEN ValidationResult
    ELSE LET data == original[1]
             size == Len(data)
             r1 == add_stat(ValidationResult, "data_size", size)
             r2 == add_stat(r1, "min_value", Min(data))
             r3 == add_stat(r2, "max_value", Max(data))
             r4 == add_stat(r3, "unique_count", Cardinality(Range(data)))
             r5 == add_stat(r4, "duplicate_count", size - Cardinality(Range(data)))
             sorted_data == Sorted(data)
             reverse_sorted_data == SortedReverse(data)
         IN  IF data = sorted_data
             THEN add_stat(r5, "initial_state", [state |-> "fully sorted"])
             ELSE IF data = reverse_sorted_data
             THEN add_stat(r5, "initial_state", [state |-> "fully reversed"])
             ELSE LET inversions == OuterLoop(data, 1, 0)
                      max_inversions == (size * (size - 1)) \div 2
                      r6 == add_stat(r5, "initial_state",
                                     [state |-> "partially sorted",
                                      disorder |-> DisorderRatio(inversions, max_inversions)])
                  IN  add_stat(r6, "inversion_count", inversions)

(***************************************************************************)
(* The files of a run.                                                     *)
(***************************************************************************)
RECURSIVE FormatNat(_)
FormatNat(n) ==
    LET d == <<"0", "1", "2", "3", "4", "5", "6", "7", "8", "9">>[(n % 10) + 1]
    IN  IF n < 10 THEN <<d>> ELSE FormatNat(n \div 10) \o <<d>>

FormatInt(n) == IF n < 0 THEN <<"-">> \o FormatNat(0 - n) ELSE FormatNat(n)

RECURSIVE Join(_, _)
Join(parts, sep) ==
    IF parts = <<>> THEN <<>>
    ELSE IF Len(parts) = 1 THEN parts[1]
    ELSE parts[1] \o sep \o Join(Tail(parts), sep)

\* the integers of a list, separated by single spaces
LineOf(ints) == Join([i \in DOMAIN ints |-> FormatInt(ints[i])], <<" ">>)

\* lines separated by line breaks
TextOf(lines) == Join(lines, <<"\n">>)

SeqsUpTo(S, n) == UNION {[1..k -> S] : k \in 0..n}

File(status, text) == [status |-> status, text |-> text]

Vals == 1..MaxVal

DataVals == 1..MaxDataVal

LineChars == {"1", " ", "\t"}

\* a list, its ascending sort, and a line with a malformed token, with
\* doubled and leading spaces, and an empty one
PipeLines ==
    {<<"1">>, <<"1", " ", "2">>, <<"1", " ", "x">>, <<" ", "1", " ", " ", "2">>, <<>>}

\* what open and read can find in the place of the input file
PipeInputs ==
    {File("not_found", <<>>), File("io_error", <<>>), File("undecodable", <<>>),
     File("ok", <<>>), File("ok", <<" ", "\n">>), File("ok", <<"1", " ", "-", "x">>),
     File("ok", <<"1", "\n">>), File("ok", <<"2", "\n", "2", " ", "1">>)}

StartOfRun(in, out) ==
    /\ input_file = in
    /\ output_file = out
    /\ original_data = None
    /\ output_lines = None
    /\ parsed_results = None
    /\ local = <<>>
    /\ calls = <<>>
    /\ pc = "load_input"

\* well-formed files: any dataset of at most MaxLen values; one slot holds
\* any list of at most MaxLen values, the first of the other slots the
\* dataset as it is or sorted, the second the sorted dataset
InitSort ==
    \E d \in SeqsUpTo(Vals, MaxLen) \ {<<>>}, r \in SeqsUpTo(Vals, MaxLen), s \in 1..3 :
      \E o \in {d, Sorted(d)} \X {Sorted(d)} :
        LET others == SelectSeq(<<1, 2, 3>>, LAMBDA i : i # s)
            slot == [i \in 1..3 |-> IF i = s THEN r
                                    ELSE IF i = others[1] THEN o[1] ELSE o[2]]
        IN  StartOfRun(File("ok", LineOf(d)),
                       File("ok", TextOf([i \in 1..3 |-> LineOf(slot[i])])))

\* any outcome of reading the two files; an output of at most MaxLines
\* lines, ending with a line break or not
InitPipe ==
    \E in \in PipeInputs, lines \in SeqsUpTo(PipeLines, MaxLines), nl \in BOOLEAN,
       status \in {"ok", "not_found", "io_error", "undecodable"} :
        /\ status # "ok" => lines = <<>> /\ ~nl
        /\ StartOfRun(in, File(status, TextOf(lines) \o (IF nl THEN <<"\n">> ELSE <<>>)))

\* three lines, one of them any text of at most MaxLineLen characters
InitFormat ==
    \E line \in SeqsUpTo(LineChars, MaxLineLen), s \in 1..3 :
        StartOfRun(File("ok", <<"1">>),
                   File("ok", TextOf([i \in 1..3 |-> IF i = s THEN line ELSE <<"1">>])))

\* any dataset of at most MaxDataLen values, sorted correctly three times
InitData ==
    \E d \in SeqsUpTo(DataVals, MaxDataLen) \ {<<>>} :
        StartOfRun(File("ok", LineOf(d)),
                   File("ok", TextOf([i \in 1..3 |-> LineOf(Sorted(d))])))

\* any dataset of at most MaxDataLen values; the slots hold it as it is,
\* reversed and sorted: three lists of the right size and the right values
InitPermuted ==
    \E d \in SeqsUpTo(DataVals, MaxDataLen) \ {<<>>} :
        StartOfRun(File("ok", LineOf(d)),
                   File("ok", TextOf(<<LineOf(d), LineOf(Reverse(d)), LineOf(Sorted(d))>>)))

Init == InitSort \/ InitPipe \/ InitFormat \/ InitData \/ InitPermuted

(***************************************************************************)
(* SortingValidator.run_full_validation, one action per stage it calls.    *)
(***************************************************************************)
\* overall_result.errors.extend, .warnings.extend, .stats.update
Merge(overall, r) ==
    [overall EXCEPT !.errors = @ \o r.errors,
                    !.warnings = @ \o r.warnings,
                    !.stats = r.stats @@ @]

\* overall_result.stats.update only
MergeStats(overall, r) == [overall EXCEPT !.stats = r.stats @@ @]

\* overall_result.success = len(overall_result.errors) == 0
Finish(overall) == [overall EXCEPT !.success = (Len(overall.errors) = 0)]

overall_result == local.overall_result

LoadInput ==
    /\ pc = "load_input"
    /\ calls' = Append(calls, "load_input_data")
    /\ LET r == load_input_data(input_file, original_data)
       IN  IF r.raised
           THEN /\ pc' = "raised"
                /\ UNCHANGED <<original_data, local>>
           ELSE /\ original_data' = r.original_data
                /\ local' = [overall_result |-> Merge(ValidationResult, r.result),
                             input_result |-> r.result]
                /\ pc' = IF ~r.result.success THEN "returned" ELSE "load_output"
    /\ UNCHANGED <<input_file, output_file, output_lines, parsed_results>>

\* a variant of LoadOutput without the early return
LoadOutput_Continues ==
    /\ pc = "load_output"
    /\ calls' = Append(calls, "load_output_data")
    /\ LET r == load_output_data(output_file, output_lines)
       IN  /\ output_lines' = r.output_lines
           /\ local' = [overall_result |-> Merge(overall_result, r.result),
                        output_result |-> r.result] @@ local
    /\ pc' = "validate_format"
    /\ UNCHANGED <<input_file, output_file, original_data, parsed_results>>

LoadOutput ==
    /\ pc = "load_output"
    /\ calls' = Append(calls, "load_output_data")
    /\ LET r == load_output_data(output_file, output_lines)
       IN  /\ output_lines' = r.output_lines
           /\ local' = [overall_result |-> Merge(overall_result, r.result),
                        output_result |-> r.result] @@ local
           /\ pc' = IF ~r.result.success THEN "returned" ELSE "validate_format"
    /\ UNCHANGED <<input_file, output_file, original_data, parsed_results>>

\* a variant of ValidateFormat that returns the report on a format error
ValidateFormat_Stops ==
    /\ pc = "validate_format"
    /\ calls' = Append(calls, "validate_output_format")
    /\ LET r == validate_output_format(output_lines)
       IN  /\ local' = [overall_result |-> Merge(overall_result, r),
                        format_result |-> r] @@ local
           /\ pc' = IF ~r.success THEN "returned" ELSE "parse"
    /\ UNCHANGED <<input_file, output_file, original_data, output_lines, parsed_results>>

ValidateFormat ==
    /\ pc = "validate_format"
    /\ calls' = Append(calls, "validate_output_format")
    /\ LET r == validate_output_format(output_lines)
       IN  local' = [overall_result |-> Merge(overall_result, r),
                     format_result |-> r] @@ local
    /\ pc' = "parse"
    /\ UNCHANGED <<input_file, output_file, original_data, output_lines, parsed_results>>

ParseOutput ==
    /\ pc = "parse"
    /\ calls' = Append(calls, "parse_output_results")
    /\ LET r == parse_output_results(output_lines, parsed_results)
       IN  /\ parsed_results' = r.parsed_results
           /\ IF r.raised
              THEN /\ pc' = "raised"
                   /\ UNCHANGED local
              ELSE /\ local' = [overall_result |-> Merge(overall_result, r.result),
                                parse_result |-> r.result] @@ local
                   /\ pc' = IF ~r.result.success THEN "returned"
                            ELSE "validate_correctness"
    /\ UNCHANGED <<input_file, output_file, original_data, output_lines>>

ValidateCorrectness ==
    /\ pc = "validate_correctness"
    /\ calls' = Append(calls, "validate_sorting_correctness")
    /\ LET r == validate_sorting_correctness(original_data, parsed_results)
       IN  local' = [overall_result |-> Merge(overall_result, r),
                     correctness_result |-> r] @@ local
    /\ pc' = "validate_consistency"
    /\ UNCHANGED <<input_file, output_file, original_data, output_lines, parsed_results>>

ValidateConsistency ==
    /\ pc = "validate_consistency"
    /\ calls' = Append(calls, "validate_algorithm_consistency")
    /\ LET r == validate_algorithm_consistency(parsed_results)
       IN  local' = [overall_result |-> Merge(overall_result, r),
                     consistency_result |-> r] @@ local
    /\ pc' = "analyze"
    /\ UNCHANGED <<input_file, output_file, original_data, output_lines, parsed_results>>

AnalyzeData ==
    /\ pc = "analyze"
    /\ calls' = Append(calls, "analyze_data_characteristics")
    /\ LET r == analyze_data_characteristics(original_data)
       IN  local' = [overall_result |-> Finish(MergeStats(overall_result, r)),
                     analysis_result |-> r] @@ local
    /\ pc' = "returned"
    /\ UNCHANGED <<input_file, output_file, original_data, output_lines, parsed_results>>

Next ==
    \/ LoadInput
    \/ LoadOutput
    \/ ValidateFormat
    \/ ParseOutput
    \/ ValidateCorrectness
    \/ ValidateConsistency
    \/ AnalyzeData

Spec == Init /\ [][Next]_vars

(***************************************************************************)
(* Vocabulary of the properties.                                           *)
(***************************************************************************)
\* run_full_validation has called this stage and the stage has returned
Ran(result) == result \in DOMAIN local

\* the multiplicity of v in s
Count(s, v) == Cardinality({i \in DOMAIN s : s[i] = v})

SameMultiset(s, t) == \A v \in Range(s) \cup Range(t) : Count(s, v) = Count(t, v)

IsAscending(s) == \A i, j \in DOMAIN s : i < j => s[i] <= s[j]

IsDescending(s) == \A i, j \in DOMAIN s : i < j => s[i] >= s[j]

\* the slots the Correctness Validator looks at
Slots == 1..(IF Len(parsed_results[1]) < 3 THEN Len(parsed_results[1]) ELSE 3)

\* the positions, in a list of errors, of the errors of one slot: those
\* that name it and the detail lines that follow one of them
ErrorsOf(errors, name) ==
    {k \in DOMAIN errors :
        \E m \in 1..k : /\ errors[m].name = name
                        /\ \A n \in (m + 1)..k : errors[n].name = ""}

\* C1: the report run_full_validation returns has success = (errors is
\* empty), the runs that return early included.
C1_SuccessIffNoErrors ==
    pc = "returned" => overall_result.success = (overall_result.errors = <<>>)

\* C2: a slot whose result differs from the dataset in size or in the
\* multiplicity of some value gets a size-mismatch or a multiset-mismatch
\* error of the Correctness Validator, and no "<slot>_correct" stat.
C2_NoFalseCorrect ==
    Ran("correctness_result") =>
        \A i \in Slots :
            LET result == parsed_results[1][i]
                r == local.correctness_result
            IN  (Len(result) # Len(original_data[1]) \/ ~SameMultiset(result, original_data[1]))
                => /\ \E k \in DOMAIN r.errors :
                        /\ r.errors[k].name = algorithm_names[i]
                        /\ r.errors[k].kind \in {"size_mismatch", "count_mismatch"}
                   /\ (algorithm_names[i] \o "_correct") \notin DOMAIN r.stats

\* C2 witness: a slot of the right size and the wrong multiset was flagged,
\* next to a slot that was found correct.
C2_Witness ==
    /\ Ran("correctness_result")
    /\ \E i \in Slots :
        /\ Len(parsed_results[1][i]) = Len(original_data[1])
        /\ ~SameMultiset(parsed_results[1][i], original_data[1])
        /\ \E k \in DOMAIN local.correctness_result.errors :
            /\ local.correctness_result.errors[k].name = algorithm_names[i]
            /\ local.correctness_result.errors[k].kind = "count_mismatch"
    /\ \E i \in Slots :
        (algorithm_names[i] \o "_correct") \in DOMAIN local.correctness_result.stats

\* C3: a slot whose result is the ascending sort of the dataset gets
\* "<slot>_correct" = true and no error, whatever the other slots hold.
C3_SortedIsCorrect ==
    Ran("correctness_result") =>
        \A i \in Slots :
            LET result == parsed_results[1][i]
                r == local.correctness_result
                key == algorithm_names[i] \o "_correct"
            IN  (IsAscending(result) /\ Len(result) = Len(original_data[1])
                                     /\ SameMultiset(result, original_data[1]))
                => /\ key \in DOMAIN r.stats
                   /\ r.stats[key] = TRUE
                   /\ ErrorsOf(r.errors, algorithm_names[i]) = {}

\* C3 witness: a slot holding the ascending sort of an unsorted dataset was
\* found correct while the other two slots got errors.
C3_Witness ==
    /\ Ran("correctness_result")
    /\ Len(parsed_results[1]) = 3
    /\ ~IsAscending(original_data[1])
    /\ \E i \in 1..3 :
        /\ (algorithm_names[i] \o "_correct") \in DOMAIN local.correctness_result.stats
        /\ \A j \in (1..3) \ {i} :
            ErrorsOf(local.correctness_result.errors, algorithm_names[j]) # {}

\* the stages of run_full_validation, in the order of the calls
AllStages ==
    <<"load_input_data", "load_output_data", "validate_output_format",
      "parse_output_results", "validate_sorting_correctness",
      "validate_algorithm_consistency", "analyze_data_characteristics">>

\* the report holds the stats of a stage
HoldsStats(r) == \A k \in DOMAIN r.stats :
                    k \in DOMAIN overall_result.stats /\ overall_result.stats[k] = r.stats[k]

BothLoaded == Ran("output_result") /\ local.output_result.success

C5_ThreeEntries ==
    Ran("parse_result") => Len(parsed_results[1]) = 3

\* C5 as amended: once the Result Parser has returned, the output has at
\* most 3 lines and parsed_results has one entry per line, in line order: the
\* empty list for a line with a malformed token, the integers of the line
\* otherwise.
C5_OneEntryPerLine ==
    Ran("parse_result") =>
        /\ Len(output_lines[1]) <= 3
        /\ Len(parsed_results[1]) = Len(output_lines[1])
        /\ \A i \in DOMAIN output_lines[1] :
            LET toks == Split(output_lines[1][i])
            IN  IF \E k \in DOMAIN toks : ~IsInt(toks[k])
                THEN parsed_results[1][i] = <<>>
                ELSE parsed_results[1][i] = [k \in DOMAIN toks |-> IntOf(toks[k])]

\* C5 witness: three lines, the second with a malformed token, parsed to
\* three entries, the second empty and the others not.
C5_Witness ==
    /\ Ran("parse_result")
    /\ Len(parsed_results[1]) = 3
    /\ ParseInts(output_lines[1][2]) = None
    /\ parsed_results[1][2] = <<>>
    /\ parsed_results[1][1] # <<>>
    /\ parsed_results[1][3] # <<>>

\* C6: after an error of the Dataset Loader no other stage is called, and
\* after an error of the Result Set Loader no later stage is called; the
\* report returned holds the errors of the failing loader and no others,
\* and parsed_results is left unset.
C6_LoaderErrorsShortCircuit ==
    /\ (Ran("input_result") /\ ~local.input_result.success) =>
            /\ pc = "returned"
            /\ calls = <<"load_input_data">>
            /\ local.input_result.errors # <<>>
            /\ overall_result.errors = local.input_result.errors
            /\ output_lines = None /\ parsed_results = None
    /\ (Ran("output_result") /\ ~local.output_result.success) =>
            /\ pc = "returned"
            /\ calls = <<"load_input_data", "load_output_data">>
            /\ local.output_result.errors # <<>>
            /\ overall_result.errors = local.output_result.errors
            /\ parsed_results = None

\* C6 witness: the Result Set Loader failed after the Dataset Loader succeeded.
C6_Witness ==
    /\ pc = "returned"
    /\ Ran("output_result")
    /\ original_data # None
    /\ overall_result.errors = <<Err("output_bad_encoding", "", <<>>)>>

FormatKinds == {"leading_space", "trailing_space", "double_space", "empty_line"}

\* the defects of a line, W being the characters that count as whitespace
\* at the ends of the line and in a run
Defects(line, W) ==
    {k \in FormatKinds :
        \/ k = "leading_space" /\ line # <<>> /\ line[1] \in W
        \/ k = "trailing_space" /\ line # <<>> /\ line[Len(line)] \in W
        \/ k = "double_space" /\ \E i \in 1..(Len(line) - 1) : line[i] \in W /\ line[i + 1] \in W
        \/ k = "empty_line" /\ \A i \in DOMAIN line : IsSpace(line[i])}

\* the Format Validator's errors on a 3-line output are, line by line, one
\* error for each defect of the line
OneErrorPerDefect(W) ==
    (Ran("format_result") /\ Len(output_lines[1]) = 3) =>
        LET errors == local.format_result.errors
        IN  /\ \A k \in DOMAIN errors : errors[k].kind \in FormatKinds
            /\ \A i \in 1..3 : \A kind \in FormatKinds :
                 Cardinality({k \in DOMAIN errors : /\ errors[k].name = algorithm_names[i]
                                                    /\ errors[k].kind = kind})
                    = IF kind \in Defects(output_lines[1][i], W) THEN 1 ELSE 0

\* C7 as claimed: the four checks of a line are independent and each is
\* about any whitespace character.
C7_AnyWhitespace == OneErrorPerDefect({" ", "\t", "\r", "\f"})

\* C7 as amended: the four checks of a line are independent; the leading,
\* trailing and consecutive checks look for the space character only, the
\* empty-line check for a line of whitespace characters of any kind; a line
\* with k of these defects yields exactly k errors.
C7_SpaceOnly == OneErrorPerDefect({" "})

\* C7 witness: a line of two spaces got four errors.
C7_Witness ==
    /\ Ran("format_result")
    /\ Len(output_lines[1]) = 3
    /\ \E i \in 1..3 :
        /\ output_lines[1][i] = <<" ", " ">>
        /\ Cardinality({k \in DOMAIN local.format_result.errors :
                            local.format_result.errors[k].name = algorithm_names[i]}) = 4

\* the pairs of slots (0-based, as the messages name them) in the order of
\* the comparisons
SlotPairs == <<<<0, 1>>, <<0, 2>>, <<1, 2>>>>

\* C8: on three results the Consistency Validator records
\* "algorithms_consistent" = true and no error iff the three are equal
\* element by element; otherwise it records no such stat and emits the
\* general error followed by one pairwise error per differing pair, in the
\* order (0,1), (0,2), (1,2), and none for an equal pair.
C8_PairwiseErrors ==
    (Ran("consistency_result") /\ Len(parsed_results[1]) = 3) =>
        LET r == local.consistency_result
            p == parsed_results[1]
            Equal(a, b) == /\ Len(p[a + 1]) = Len(p[b + 1])
                           /\ \A k \in DOMAIN p[a + 1] : p[a + 1][k] = p[b + 1][k]
            Differs(pair) == ~Equal(pair[1], pair[2])
            differing == SelectSeq(SlotPairs, Differs)
        IN  IF differing = <<>>
            THEN /\ r.errors = <<>>
                 /\ "algorithms_consistent" \in DOMAIN r.stats
                 /\ r.stats["algorithms_consistent"] = TRUE
            ELSE /\ "algorithms_consistent" \notin DOMAIN r.stats
                 /\ Len(r.errors) = 1 + Len(differing)
                 /\ r.errors[1].kind = "inconsistent"
                 /\ \A k \in DOMAIN differing :
                        /\ r.errors[k + 1].kind = "pair_differs"
                        /\ r.errors[k + 1].args = differing[k]

\* C8 witness: slots 0 and 1 agree and slot 2 differs: the general error and
\* the errors of the pairs (0,2) and (1,2).
C8_Witness ==
    /\ Ran("consistency_result")
    /\ Len(parsed_results[1]) = 3
    /\ parsed_results[1][1] = parsed_results[1][2]
    /\ Len(local.consistency_result.errors) = 3
    /\ local.consistency_result.errors[2].args = <<0, 2>>
    /\ local.consistency_result.errors[3].args = <<1, 2>>

\* the number of index pairs i < j with s[i] > s[j]
Inversions(s) ==
    Cardinality({ij \in (DOMAIN s) \X (DOMAIN s) : ij[1] < ij[2] /\ s[ij[1]] > s[ij[2]]})

\* C9: the Disorder Analyzer emits no error; an ascending dataset is
\* "fully sorted", else a descending one "fully reversed", else the dataset
\* is "partially sorted"; inversion_count is recorded in the third case
\* only and is the number of index pairs i < j with dataset[i] > dataset[j].
C9_Classification ==
    Ran("analysis_result") =>
        LET r == local.analysis_result
            data == original_data[1]
            state == r.stats["initial_state"].state
        IN  /\ r.errors = <<>> /\ r.success
            /\ IF IsAscending(data) THEN state = "fully sorted"
               ELSE IF IsDescending(data) THEN state = "fully reversed"
               ELSE state = "partially sorted"
            /\ ("inversion_count" \in DOMAIN r.stats) <=> (state = "partially sorted")
            /\ ("inversion_count" \in DOMAIN r.stats) =>
                    r.stats["inversion_count"] = Inversions(data)

\* C9 witness: the dataset 2 1 4 3 of the spec's example, or another with
\* two inversions or more, was found partially sorted.
C9_Witness ==
    /\ Ran("analysis_result")
    /\ "inversion_count" \in DOMAIN overall_result.stats
    /\ overall_result.stats["inversion_count"] >= 2
    /\ Len(original_data[1]) = 4

\* the number of line breaks of a text
LineBreaks(text) == Cardinality({i \in DOMAIN text : text[i] = "\n"})

\* C10: a text that ends with a line break loses the one empty segment
\* after it, with one warning and no error; a text that does not end with a
\* line break loses no segment and gets no warning; the segments between
\* line breaks are all kept, the empty ones too; the output_lines stat and
\* the 3-line check of the Format Validator count the lines that are left.
C10_TrailingLineBreak ==
    (Ran("output_result") /\ output_file.status = "ok") =>
        LET text == output_file.text
            lines == output_lines[1]
            r == local.output_result
            ends == text # <<>> /\ text[Len(text)] = "\n"
        IN  /\ r.errors = <<>>
            /\ r.stats["output_lines"] = Len(lines)
            /\ IF ends
               THEN /\ Len(lines) = LineBreaks(text)
                    /\ TextOf(lines) \o <<"\n">> = text
                    /\ Len(r.warnings) = 1
               ELSE /\ Len(lines) = LineBreaks(text) + 1
                    /\ TextOf(lines) = text
                    /\ r.warnings = <<>>
            /\ Ran("format_result") =>
                 ((Len(lines) # 3) <=>
                    (\E k \in DOMAIN local.format_result.errors :
                        local.format_result.errors[k].kind = "wrong_line_count"))

\* C11: a slot of the right size and the right values that is not ascending
\* gets exactly one error, the order violation at the least index j with
\* result[j] > result[j + 1], which names j, j + 1 and the two values; it
\* gets no result-mismatch error and no "<slot>_correct" stat.
C11_FirstViolationOnly ==
    Ran("correctness_result") =>
        \A i \in Slots :
            LET result == parsed_results[1][i]
                r == local.correctness_result
                own == ErrorsOf(r.errors, algorithm_names[i])
                \* 1-based positions of the descents of result
                descents == {j \in 1..(Len(result) - 1) : result[j] > result[j + 1]}
            IN  (/\ Len(result) = Len(original_data[1])
                 /\ SameMultiset(result, original_data[1])
                 /\ ~IsAscending(result))
                => /\ Cardinality(own) = 1
                   /\ \A k \in own :
                        /\ r.errors[k].kind = "order"
                        /\ r.errors[k].name = algorithm_names[i]
                        /\ \E j \in descents :
                            /\ \A m \in descents : j <= m
                            /\ r.errors[k].args = <<j - 1, j, result[j], result[j + 1]>>
                   /\ (algorithm_names[i] \o "_correct") \notin DOMAIN r.stats

\* C11 witness: a slot with two violations or more, of which the first one
\* was reported, as for the result 1 3 2 of the spec's example but with a
\* later violation too.
C11_Witness ==
    /\ Ran("correctness_result")
    /\ \E i \in Slots :
        LET result == parsed_results[1][i]
        IN  /\ Cardinality({j \in 1..(Len(result) - 1) : result[j] > result[j + 1]}) >= 2
            /\ ~(result[1] > result[2])
            /\ \E k \in DOMAIN local.correctness_result.errors :
                /\ local.correctness_result.errors[k].kind = "order"
                /\ local.correctness_result.errors[k].name = algorithm_names[i]

\* C12: once both files are read, run_full_validation does not end with an
\* exception: whatever the number of lines of the output, it returns a
\* report, in which a number of lines other than 3 is an error.
C12_AlwaysReturnsReport ==
    (Ran("output_result") /\ output_file.status = "ok") =>
        /\ pc # "raised"
        /\ (pc = "returned" /\ Len(output_lines[1]) # 3) =>
                \E k \in DOMAIN overall_result.errors :
                    /\ overall_result.errors[k].kind = "wrong_line_count"
                    /\ overall_result.errors[k].args = <<Len(output_lines[1])>>

\* C13: the Correctness Validator never emits the result-mismatch error of
\* its fourth check: a slot that passes the size, multiset and order checks
\* is the sorted dataset, so every slot without an error of its own has
\* "<slot>_correct" = true.
C13_MismatchUnreachable ==
    Ran("correctness_result") =>
        LET r == local.correctness_result
        IN  /\ \A k \in DOMAIN r.errors : r.errors[k].kind # "differs"
            /\ \A i \in Slots :
                LET key == algorithm_names[i] \o "_correct"
                IN  ErrorsOf(r.errors, algorithm_names[i]) = {}
                    => key \in DOMAIN r.stats /\ r.stats[key] = TRUE

\* C13 witness: a slot passed the three checks on an unsorted dataset with a
\* repeated value and was found correct, next to a slot that was not.
C13_Witness ==
    /\ Ran("correctness_result")
    /\ ~IsAscending(original_data[1])
    /\ Cardinality(Range(original_data[1])) < Len(original_data[1])
    /\ \E i, j \in Slots :
        /\ (algorithm_names[i] \o "_correct") \in DOMAIN local.correctness_result.stats
        /\ ErrorsOf(local.correctness_result.errors, algorithm_names[j]) # {}

\* C14: whenever the Disorder Analyzer records inversion_count, the dataset
\* has 2 values or more and 1 <= inversion_count <= size*(size-1)/2 - 1: the
\* disorder ratio is not a division by zero and lies strictly between 0
\* and 1.
C14_RatioStrictlyInside ==
    (Ran("analysis_result") /\ "inversion_count" \in DOMAIN local.analysis_result.stats) =>
        LET stats == local.analysis_result.stats
            size == stats["data_size"]
            inversions == stats["inversion_count"]
            max_inversions == (size * (size - 1)) \div 2
        IN  /\ size = Len(original_data[1])
            /\ size >= 2
            /\ max_inversions > 0
            /\ 1 <= inversions
            /\ inversions <= max_inversions - 1

\* C14 witness: the upper end of the range was recorded: one inversion less
\* than the maximum, as for the dataset 3 1 2.
C14_Witness ==
    /\ Ran("analysis_result")
    /\ "inversion_count" \in DOMAIN local.analysis_result.stats
    /\ local.analysis_result.stats["inversion_count"]
         = (Len(original_data[1]) * (Len(original_data[1]) - 1)) \div 2 - 1
    /\ local.analysis_result.stats["initial_state"].state = "partially sorted"

====
